---- MODULE Spec2Model ----
(***************************************************************************)
(* h5xx: group handles, group iterators / container adapters and the       *)
(* dataset marshalling layer for scalars and boost::multi_array, over a    *)
(* model of the HDF5 store they call into.                                 *)
(*                                                                         *)
(* Four specifications share the variables:                                *)
(*   SpecLoop    the canonical traversal loop over groups() / datasets()   *)
(*   SpecIter    free use of two iterators over valid and invalid parents  *)
(*   SpecData    create / write / read of datasets                         *)
(*   SpecHandle  the life cycle of group handles                           *)
(***************************************************************************)
EXTENDS Integers, Sequences, FiniteSets, TLC

(* ------------------------------ bounds --------------------------------- *)

\* link names are 1..MaxNames; H5_INDEX_NAME / H5_ITER_INC lists them ascending
MaxNames == 2

\* nesting depth of paths below the root group
MaxDepth == 2

\* number of identifiers the store hands out in one behaviour
MaxIds == 3

\* largest rank of a dataspace or multi_array
MaxRank == 2

\* largest number of elements of a dataspace or multi_array
MaxElems == 2

\* number of datasets created in one behaviour of SpecData
MaxDatasets == 1

\* number of dataset handles opened in one run of the data specification
MaxOpens == 1

\* number of changes of the parent's links between traversals
MaxRestarts == 2

(* ------------------------- program constants --------------------------- *)

\* stop_idx_ = -1U: 4294967295 in the hsize_t, an index no group reaches.
\* TLC's numbers end at 2147483647, which stands for it: the code only
\* compares the value and hands it to H5Literate as a start index.
npos == 2147483647

(* ------------------------------ the store ------------------------------ *)

Names == 1..MaxNames

Paths == UNION {[1..d -> Names] : d \in 0..MaxDepth}

Root == <<>>

NoNode == [kind |-> "none", shape |-> <<>>, data |-> <<>>]

GroupNode == [kind |-> "group", shape |-> <<>>, data |-> <<>>]

\* a dataset: its dataspace extents (<<>> for H5S_SCALAR), its elements in
\* row-major order (the storage layout does not change the logical content)
DatasetNode(shape, data) ==
    [kind |-> "dataset", shape |-> shape, data |-> data]

EmptyStore == [p \in Paths |-> IF p = Root THEN GroupNode ELSE NoNode]

Min(S) == CHOOSE x \in S : \A y \in S : x <= y

Prefix(p, k) == SubSeq(p, 1, k)

\* the links of group loc in increasing order of name
Links(st, loc) ==
    LET S == IF Len(loc) < MaxDepth
             THEN {n \in Names : st[Append(loc, n)].kind # "none"}
             ELSE {}
    IN  CHOOSE s \in [1..Cardinality(S) -> S] :
            \A i, j \in 1..Cardinality(S) : i < j => s[i] < s[j]

\* the names of the links of loc whose object has the given type, in order
RECURSIVE FilterSeq(_, _, _, _)
FilterSeq(st, loc, s, type) ==
    IF s = <<>> THEN <<>>
    ELSE IF st[Append(loc, s[1])].kind = type
         THEN <<s[1]>> \o FilterSeq(st, loc, Tail(s), type)
         ELSE FilterSeq(st, loc, Tail(s), type)

Matching(st, loc, type) == FilterSeq(st, loc, Links(st, loc), type)

(* ---------------------------- identifiers ------------------------------ *)
\* ids[k] describes hid_t k: the object it was opened on and the number of
\* close calls that reached it (a second one is a double close).

IsOpen(idt, id) == id \in 1..Len(idt) /\ idt[id].closes < idt[id].refs

InStore(idt, loc_id, name) ==
    /\ IsOpen(idt, loc_id)
    /\ name # <<>>
    /\ Len(idt[loc_id].path) + Len(name) <= MaxDepth

AbsPath(idt, loc_id, name) == idt[loc_id].path \o name

NewId(idt, path) == Append(idt, [path |-> path, closes |-> 0, refs |-> 1])

\* H5Gopen: a new id on an existing group, or a negative value
H5Gopen(st, idt, loc_id, name) ==
    IF InStore(idt, loc_id, name) /\ st[AbsPath(idt, loc_id, name)].kind = "group"
    THEN [hid |-> Len(idt) + 1, ids |-> NewId(idt, AbsPath(idt, loc_id, name))]
    ELSE [hid |-> -1, ids |-> idt]

\* (mutant) H5Gcreate without H5Pset_create_intermediate_group
H5Gcreate_nointermediate(st, idt, loc_id, name) ==
    IF /\ InStore(idt, loc_id, name)
       /\ st[AbsPath(idt, loc_id, name)].kind = "none"
       /\ \A k \in 0..(Len(name) - 1) :
              st[idt[loc_id].path \o Prefix(name, k)].kind = "group"
    THEN [hid   |-> Len(idt) + 1,
          ids   |-> NewId(idt, AbsPath(idt, loc_id, name)),
          store |-> [st EXCEPT ![AbsPath(idt, loc_id, name)] = GroupNode]]
    ELSE [hid |-> -1, ids |-> idt, store |-> st]

\* (mutant) H5Gcreate that puts the group in the place of whatever the name
\* is bound to
H5Gcreate_replace(st, idt, loc_id, name) ==
    IF /\ InStore(idt, loc_id, name)
       /\ \A k \in 0..(Len(name) - 1) :
              st[idt[loc_id].path \o Prefix(name, k)].kind \in
                  (IF k = 0 THEN {"group"} ELSE {"group", "none"})
    THEN LET abs == AbsPath(idt, loc_id, name)
         IN  [hid   |-> Len(idt) + 1,
              ids   |-> NewId(idt, abs),
              store |-> [p \in Paths |->
                           IF /\ Len(p) > Len(idt[loc_id].path)
                              /\ Len(p) <= Len(abs)
                              /\ p = Prefix(abs, Len(p))
                              /\ (st[p].kind = "none" \/ p = abs)
                           THEN GroupNode ELSE st[p]]]
    ELSE [hid |-> -1, ids |-> idt, store |-> st]

\* H5Gcreate with H5Pset_create_intermediate_group: the name must be free and
\* every missing intermediate segment becomes a group
H5Gcreate(st, idt, loc_id, name) ==
    IF /\ InStore(idt, loc_id, name)
       /\ st[AbsPath(idt, loc_id, name)].kind = "none"
       /\ \A k \in 0..(Len(name) - 1) :
              st[idt[loc_id].path \o Prefix(name, k)].kind \in
                  (IF k = 0 THEN {"group"} ELSE {"group", "none"})
    THEN LET abs == AbsPath(idt, loc_id, name)
         IN  [hid   |-> Len(idt) + 1,
              ids   |-> NewId(idt, abs),
              store |-> [p \in Paths |->
                           IF /\ Len(p) > Len(idt[loc_id].path)
                              /\ Len(p) <= Len(abs)
                              /\ p = Prefix(abs, Len(p))
                              /\ st[p].kind = "none"
                           THEN GroupNode ELSE st[p]]]
    ELSE [hid |-> -1, ids |-> idt, store |-> st]

\* H5Gclose / H5Dclose: fails on an id that is not open; a call on an id that
\* was closed before is counted
H5Gclose(idt, id) ==
    IF id \in 1..Len(idt)
    THEN [ret |-> IF idt[id].closes < idt[id].refs THEN 0 ELSE -1,
          ids |-> [idt EXCEPT ![id].closes = @ + 1]]
    ELSE [ret |-> -1, ids |-> idt]

\* (mutant) the callback accepts a link of any type
find_name_of_type_impl_any(st, loc, n, type) == 1

\* detail::find_name_of_type_impl<type>: > 0 accepts the link and stops the
\* listing, 0 continues with the next link
find_name_of_type_impl(st, loc, n, type) ==
    IF st[Append(loc, n)].kind = type THEN 1 ELSE 0

\* H5Literate(group, H5_INDEX_NAME, H5_ITER_INC, &idx, op, &name) with op =
\* find_name_of_type<T>: resumes at link number idx, stops at the first link
\* the callback accepts and leaves idx behind it. A start index at or beyond
\* the number of links is rejected by the library with a negative value (the
\* "out of range" case of operator++).
H5Literate(st, loc, idx, type, name) ==
    LET L    == Links(st, loc)
        n    == Len(L)
        hits == {k \in 1..n : k > idx /\ find_name_of_type_impl(st, loc, L[k], type) > 0}
    IN  IF idx > 0 /\ idx >= n
        THEN [retval |-> -1, idx |-> idx, name |-> name]
        ELSE IF hits = {}
        THEN [retval |-> 0, idx |-> n, name |-> name]
        ELSE [retval |-> 1, idx |-> Min(hits), name |-> <<L[Min(hits)]>>]

(* ------------------------------ state ---------------------------------- *)

VARIABLES
    store,      \* Paths -> node
    ids,        \* the identifiers handed out so far
    grp,        \* group handles: [live, hid]
    iter,       \* iterators: [live, parent, stop_idx, name, element]
    T,          \* the object type the containers and iterators are instantiated with
    dset,       \* the dataset handle of the marshalling calls: [live, hid]
    pc,         \* position of the traversal loop
    visited,    \* names the traversal loop has dereferenced
    op,         \* the call made last, with its arguments
    err,        \* the error it raised, or "none"
    ret         \* what it returned (for an error: what the message carries)

vars == <<store, ids, grp, iter, T, dset, pc, visited, op, err, ret>>

Types == {"group", "dataset"}

(* --------------------------- h5xx::group ------------------------------- *)

NoHandle == [live |-> FALSE, hid |-> -1]

\* group::valid
valid(h) == h.hid >= 0

\* exists_group: probes with H5Gopen and closes the id it got at once
exists_group(st, idt, grp_hid, name) == H5Gopen(st, idt, grp_hid, name).hid > 0

\* (mutant) open that does not look at the id the handle holds
open_rebind(st, idt, hid_, other_hid, name) ==
    LET r == IF exists_group(st, idt, other_hid, name)
             THEN H5Gopen(st, idt, other_hid, name) @@ [store |-> st]
             ELSE H5Gcreate(st, idt, other_hid, name)
    IN  [hid |-> r.hid, store |-> r.store, ids |-> r.ids,
         err |-> IF r.hid < 0 THEN "ResourceError" ELSE "none",
         msg |-> IF r.hid < 0 THEN "creating or opening group" ELSE ""]

\* group::open on a handle whose id is hid_
open(st, idt, hid_, other_hid, name) ==
    IF hid_ >= 0
    THEN [hid |-> hid_, store |-> st, ids |-> idt, err |-> "ResourceError",
          msg |-> "already in use"]
    ELSE LET r == IF exists_group(st, idt, other_hid, name)
                  THEN H5Gopen(st, idt, other_hid, name) @@ [store |-> st]
                  ELSE H5Gcreate(st, idt, other_hid, name)
         IN  [hid |-> r.hid, store |-> r.store, ids |-> r.ids,
              err |-> IF r.hid < 0 THEN "ResourceError" ELSE "none",
              msg |-> IF r.hid < 0 THEN "creating or opening group" ELSE ""]

\* (mutant) close that keeps the id after closing it
close_noreset(idt, hid_, fail) ==
    IF hid_ >= 0
    THEN LET r == IF fail THEN [ret |-> -1, ids |-> idt] ELSE H5Gclose(idt, hid_)
         IN  [hid |-> hid_, ids |-> r.ids,
              err |-> IF r.ret < 0 THEN "ResourceError" ELSE "none"]
    ELSE [hid |-> hid_, ids |-> idt, err |-> "none"]

\* (mutant) close that swallows the failure of H5Gclose and lets the id go
close_swallow(idt, hid_, fail) ==
    IF hid_ >= 0
    THEN LET r == IF fail THEN [ret |-> -1, ids |-> idt] ELSE H5Gclose(idt, hid_)
         IN  [hid |-> -1, ids |-> r.ids, err |-> "none"]
    ELSE [hid |-> hid_, ids |-> idt, err |-> "none"]

\* group::close on a handle whose id is hid_; fail: the store refuses the close
close(idt, hid_, fail) ==
    IF hid_ >= 0
    THEN LET r == IF fail THEN [ret |-> -1, ids |-> idt] ELSE H5Gclose(idt, hid_)
         IN  IF r.ret < 0
             THEN [hid |-> hid_, ids |-> r.ids, err |-> "ResourceError"]
             ELSE [hid |-> -1, ids |-> r.ids, err |-> "none"]
    ELSE [hid |-> hid_, ids |-> idt, err |-> "none"]

\* H5Iinc_ref: one more reference to an open id
H5Iinc_ref(idt, id) ==
    IF IsOpen(idt, id) THEN [idt EXCEPT ![id].refs = @ + 1] ELSE idt

\* (mutant) copy constructor without the exception: the copy shares the id
group_copy_noexcept(idt, other_hid) ==
    [hid |-> other_hid, ids |-> H5Iinc_ref(idt, other_hid), err |-> "none"]

\* group::group(group const&): throws after hid_ was initialised; the
\* H5Iinc_ref behind the throw is never reached and no object comes to be
group_copy(idt, other_hid) ==
    [hid |-> other_hid, ids |-> idt, err |-> "ResourceError"]

\* h5xx::get_name of an open object
get_name(idt, id) == idt[id].path

(* --------------------------- h5xx::dataset ----------------------------- *)

\* exists_dataset
exists_dataset(st, idt, loc_id, name) ==
    InStore(idt, loc_id, name) /\ st[AbsPath(idt, loc_id, name)].kind = "dataset"

\* dataset::dataset(object, name): opens an existing dataset
dataset_open(st, idt, loc_id, name) ==
    IF exists_dataset(st, idt, loc_id, name)
    THEN [hid |-> Len(idt) + 1, store |-> st,
          ids |-> NewId(idt, AbsPath(idt, loc_id, name)), err |-> "none"]
    ELSE [hid |-> -1, store |-> st, ids |-> idt, err |-> "NotFound"]

(* ------------------------- group_iterator<T> --------------------------- *)

\* hist is history, not a member: how the iterator was made ("begin", "end",
\* "default"), or "moved" once operator++ ran on it or on the one it copies
NoIter == [live |-> FALSE, parent |-> "null", stop_idx |-> npos, name |-> <<>>,
           element |-> 0, hist |-> "none"]

\* (mutant) default constructor that leaves the index at 0
group_iterator_default_fresh ==
    [live |-> TRUE, parent |-> "null", stop_idx |-> 0, name |-> <<>>, element |-> 0,
     hist |-> "default"]

\* group_iterator()
group_iterator_default ==
    [live |-> TRUE, parent |-> "null", stop_idx |-> npos, name |-> <<>>, element |-> 0,
     hist |-> "default"]

\* group_iterator(const group&)
group_iterator_group(h) ==
    [live |-> TRUE, parent |-> h, stop_idx |-> 0, name |-> <<>>, element |-> 0,
     hist |-> "begin"]

\* (mutant) copy constructor that takes over the pointer to the element
group_iterator_copy_shallow(other) ==
    [live |-> TRUE, parent |-> other.parent, stop_idx |-> other.stop_idx,
     name |-> other.name, element |-> other.element, hist |-> other.hist]

\* group_iterator(group_iterator const&)
group_iterator_copy(other) ==
    [live |-> TRUE, parent |-> other.parent, stop_idx |-> other.stop_idx,
     name |-> other.name, element |-> 0, hist |-> other.hist]

\* set_to_end_
set_to_end_(it) == [it EXCEPT !.stop_idx = npos]


\* (mutant) begin() that hands out a copy of the iterator of the earlier
\* traversal where there is one
begin_stale(h) ==
    IF iter["i"].live THEN group_iterator_copy(iter["i"]) ELSE group_iterator_group(h)

\* container::begin / cbegin
begin(h) == group_iterator_group(h)

\* container::end / cend
end(h) == [set_to_end_(group_iterator_group(h)) EXCEPT !.hist = "end"]

\* (mutant) a listing that finds nothing leaves the index where the library put it
increment_noend(it) ==
    IF ~valid(grp[it.parent])
    THEN [it |-> [it EXCEPT !.stop_idx = npos], ret |-> FALSE]
    ELSE LET r == H5Literate(store, ids[grp[it.parent].hid].path, it.stop_idx, T,
                             it.name)
         IN  [it  |-> [it EXCEPT !.stop_idx = r.idx, !.name = r.name],
              ret |-> r.retval > 0]

\* (mutant) a listing that starts over from the first link when the index is
\* the past-the-end index
increment_restart(it) ==
    IF ~valid(grp[it.parent])
    THEN [it |-> [it EXCEPT !.stop_idx = npos], ret |-> FALSE]
    ELSE LET r == H5Literate(store, ids[grp[it.parent].hid].path,
                             IF it.stop_idx = npos THEN 0 ELSE it.stop_idx, T,
                             it.name)
         IN  [it  |-> IF r.retval = 0
                      THEN [it EXCEPT !.stop_idx = npos, !.name = <<>>]
                      ELSE [it EXCEPT !.stop_idx = r.idx, !.name = r.name],
              ret |-> r.retval > 0]

\* increment_: one enumeration step
increment_(it) ==
    IF ~valid(grp[it.parent])
    THEN [it |-> [it EXCEPT !.stop_idx = npos], ret |-> FALSE]
    ELSE LET r == H5Literate(store, ids[grp[it.parent].hid].path, it.stop_idx, T,
                             it.name)
         IN  [it  |-> IF r.retval = 0
                      THEN [it EXCEPT !.stop_idx = npos, !.name = <<>>]
                      ELSE [it EXCEPT !.stop_idx = r.idx, !.name = r.name],
              ret |-> r.retval > 0]

\* (mutant) no lazy initialisation
init_if_fresh_never(it) == it

\* the lazy initialisation in operator==, operator++ and operator*
init_if_fresh(it) == IF it.stop_idx = 0 THEN increment_(it).it ELSE it

\* (mutant) only the left operand is initialised
operator_eq_oneside(this, other) ==
    [this |-> init_if_fresh(this), other |-> other,
     ret |-> init_if_fresh(this).stop_idx = other.stop_idx]

\* (mutant) operator== that runs an enumeration step on both operands
operator_eq_advance(this, other) ==
    LET a == IF this.parent = "null" THEN this ELSE increment_(this).it
        b == IF other.parent = "null" THEN other ELSE increment_(other).it
    IN  [this |-> a, other |-> b, ret |-> a.stop_idx = b.stop_idx]

\* operator==(this, other)
operator_eq(this, other) ==
    LET a == init_if_fresh(this)
        b == init_if_fresh(other)
    IN  [this |-> a, other |-> b, ret |-> a.stop_idx = b.stop_idx]

\* operator!=
operator_ne(this, other) ==
    [operator_eq(this, other) EXCEPT !.ret = ~@]

\* delete element_ (in operator++ and in the destructor)
delete_element(idt, it) ==
    IF it.element # 0 THEN close(idt, it.element, FALSE).ids ELSE idt

\* (mutant) operator++ without the test of parent_
operator_inc_nocheck(it) ==
    LET idt == delete_element(ids, it)
        i0  == [it EXCEPT !.element = 0, !.hist = "moved"]
    IN  IF i0.parent = "null"
        THEN [it |-> i0, ids |-> idt, err |-> "none"]
        ELSE LET i1 == init_if_fresh(i0)
                 r  == increment_(i1)
             IN  [it  |-> IF r.ret THEN r.it ELSE [r.it EXCEPT !.stop_idx = npos],
                  ids |-> idt, err |-> "none"]

\* operator++(): pre-increment
operator_inc(it) ==
    LET idt == delete_element(ids, it)
        i0  == [it EXCEPT !.element = 0, !.hist = "moved"]
    IN  IF i0.parent = "null"
        THEN [it |-> i0, ids |-> idt, err |-> "InvalidState"]
        ELSE LET i1 == init_if_fresh(i0)
                 r  == increment_(i1)
             IN  [it  |-> IF r.ret THEN r.it ELSE [r.it EXCEPT !.stop_idx = npos],
                  ids |-> idt, err |-> "none"]

\* operator++(int): post-increment; ret is the copy taken before the increment,
\* which is returned only when the increment does not throw
operator_postinc(it) ==
    LET tmp == group_iterator_copy(it)
        r   == operator_inc(it)
    IN  [it |-> r.it, ids |-> r.ids, err |-> r.err, ret |-> tmp]

\* new T(*parent_, name_)
new_T(parent_hid, name) ==
    IF T = "group"
    THEN open(store, ids, -1, parent_hid, name)
    ELSE dataset_open(store, ids, parent_hid, name)

\* (mutant) operator* that builds a new element at every call
operator_deref_rebuild(it) ==
    IF it.parent = "null"
    THEN [it |-> it, store |-> store, ids |-> ids, err |-> "InvalidState", ret |-> 0]
    ELSE LET a == init_if_fresh(it)
         IN  IF a.stop_idx = npos
             THEN [it |-> a, store |-> store, ids |-> ids, err |-> "OutOfRange",
                   ret |-> IF valid(grp[a.parent])
                           THEN <<"parent group", get_name(ids, grp[a.parent].hid)>>
                           ELSE <<"non-existing parent group">>]
             ELSE LET c == new_T(grp[a.parent].hid, a.name)
                  IN  IF c.err # "none"
                      THEN [it |-> a, store |-> c.store, ids |-> c.ids,
                            err |-> c.err, ret |-> 0]
                      ELSE [it |-> [a EXCEPT !.element = c.hid], store |-> c.store,
                            ids |-> c.ids, err |-> "none", ret |-> c.hid]

\* operator*(): the element is returned by reference; ret is its id
operator_deref(it) ==
    IF it.parent = "null"
    THEN [it |-> it, store |-> store, ids |-> ids, err |-> "InvalidState", ret |-> 0]
    ELSE LET a == init_if_fresh(it)
         IN  IF a.stop_idx = npos
             THEN [it |-> a, store |-> store, ids |-> ids, err |-> "OutOfRange",
                   ret |-> IF valid(grp[a.parent])
                           THEN <<"parent group", get_name(ids, grp[a.parent].hid)>>
                           ELSE <<"non-existing parent group">>]
             ELSE IF a.element = 0
             THEN LET c == new_T(grp[a.parent].hid, a.name)
                  IN  IF c.err # "none"
                      THEN [it |-> a, store |-> c.store, ids |-> c.ids,
                            err |-> c.err, ret |-> 0]
                      ELSE [it |-> [a EXCEPT !.element = c.hid], store |-> c.store,
                            ids |-> c.ids, err |-> "none", ret |-> c.hid]
             ELSE [it |-> a, store |-> store, ids |-> ids, err |-> "none",
                   ret |-> a.element]

(* ------------------------- initial states ------------------------------ *)

Handles == {"p", "q"}

Iters == {"i", "j"}

\* a scalar dataset holding 0
ScalarNode == DatasetNode(<<>>, <<0>>)

\* the root group with any mix of sub-groups and scalar datasets as links
FlatStores ==
    {[p \in Paths |-> IF p = Root THEN GroupNode
                      ELSE IF Len(p) = 1 THEN k[p[1]] ELSE NoNode] :
        k \in [Names -> {NoNode, GroupNode, ScalarNode}]}

\* handle p: group(file) on the root group; handle q: group()
InitHandles ==
    /\ ids = <<[path |-> Root, closes |-> 0, refs |-> 1]>>
    /\ grp = [h \in Handles |-> IF h = "p" THEN [live |-> TRUE, hid |-> 1]
                                ELSE [live |-> TRUE, hid |-> -1]]

InitRest ==
    /\ iter = [i \in Iters |-> NoIter]
    /\ dset = NoHandle
    /\ visited = <<>>
    /\ op = <<"init">>
    /\ err = "none"
    /\ ret = 0

(* --------------------- SpecLoop: the traversal loop -------------------- *)
\*   it = c.begin();  while (it != c.end()) { *it; ++it; }
\* with c = p.groups() or p.datasets()

\* the parent of the traversal: the root group or one of its sub-groups
LoopParents == {P \in Paths : Len(P) <= 1 /\ Len(P) < MaxDepth}

\* the parent P, reached from the root, with any mix of sub-groups and scalar
\* datasets as links
StoresAt(P) ==
    {[p \in Paths |-> IF p = Root \/ p = P THEN GroupNode
                      ELSE IF Len(p) = Len(P) + 1 /\ Prefix(p, Len(P)) = P
                           THEN k[p[Len(p)]] ELSE NoNode] :
        k \in [Names -> {NoNode, GroupNode, ScalarNode}]}

InitLoop ==
    /\ \E P \in LoopParents :
         /\ store \in StoresAt(P)
         /\ ids = <<[path |-> P, closes |-> 0, refs |-> 1]>>
    /\ grp = [h \in Handles |-> IF h = "p" THEN [live |-> TRUE, hid |-> 1]
                                ELSE [live |-> TRUE, hid |-> -1]]
    /\ T \in Types
    /\ InitRest
    /\ pc = "start"

Last(s) == s[Len(s)]

LoopBegin ==
    /\ pc = "start"
    /\ pc' = "test"
    /\ iter' = [iter EXCEPT !["i"] = begin("p")]
    /\ op' = <<"begin", "i", "p">>
    /\ err' = "none"
    /\ ret' = 0
    /\ UNCHANGED <<store, ids, grp, T, dset, visited>>

\* the result of the comparison is consumed by the branch
LoopTest ==
    /\ pc = "test"
    /\ LET r == operator_ne(iter["i"], end("p"))
       IN  /\ pc' = IF r.ret THEN "deref" ELSE "done"
           /\ iter' = [iter EXCEPT !["i"] = r.this]
    /\ ret' = 0
    /\ op' = <<"ne", "i", "end">>
    /\ err' = "none"
    /\ UNCHANGED <<store, ids, grp, T, dset, visited>>

LoopDeref ==
    /\ pc = "deref"
    /\ LET r == operator_deref(iter["i"])
       IN  /\ pc' = IF r.err = "none" THEN "incr" ELSE "failed"
           /\ visited' = IF r.err = "none"
                         THEN Append(visited, Last(get_name(r.ids, r.ret)))
                         ELSE visited
           /\ iter' = [iter EXCEPT !["i"] = r.it]
           /\ store' = r.store
           /\ ids' = r.ids
           /\ err' = r.err
           /\ ret' = r.ret
    /\ op' = <<"deref", "i">>
    /\ UNCHANGED <<grp, T, dset>>

LoopIncr ==
    /\ pc = "incr"
    /\ LET r == operator_inc(iter["i"])
       IN  /\ pc' = IF r.err = "none" THEN "test" ELSE "failed"
           /\ iter' = [iter EXCEPT !["i"] = r.it]
           /\ ids' = r.ids
           /\ err' = r.err
    /\ op' = <<"inc", "i">>
    /\ ret' = 0
    /\ UNCHANGED <<store, grp, T, dset, visited>>

NextLoop == LoopBegin \/ LoopTest \/ LoopDeref \/ LoopIncr

\* the loop is a sequential program: it keeps running until it leaves the loop
SpecLoop == InitLoop /\ [][NextLoop]_vars /\ WF_vars(NextLoop)

IsPrefix(s, t) == Len(s) <= Len(t) /\ s = SubSeq(t, 1, Len(s))

\* C1: over an unmodified parent with g sub-groups and d datasets the loop
\* dereferences exactly the children of the iterator's type, each once, in
\* the store's order, never a child of the other type, and leaves the loop
\* after exactly that many dereferences.
C1_LoopInv ==
    LET want == Matching(store, ids[1].path, T)
    IN  /\ pc # "failed"
        /\ IsPrefix(visited, want)
        /\ pc \in {"deref", "incr"} => Len(visited) + (IF pc = "deref" THEN 1 ELSE 0) <= Len(want)
        /\ pc = "done" => visited = want

C1_Traversal == []C1_LoopInv /\ <>(pc = "done")

\* a finished traversal over a parent that mixes both types
C1_Witness ==
    /\ pc = "done"
    /\ T = "group"
    /\ visited = <<2>>
    /\ ids[1].path = <<1>>
    /\ store[<<1, 1>>].kind = "dataset"

(* ------------------ SpecIter: two iterators, free use ------------------ *)

InitIter ==
    /\ store \in FlatStores
    /\ T \in Types
    /\ InitHandles
    /\ InitRest
    /\ pc = "off"

\* i = h.groups().begin() resp. h.datasets().begin()
IterBegin(i, h) ==
    /\ ~iter[i].live
    /\ iter' = [iter EXCEPT ![i] = begin(h)]
    /\ op' = <<"begin", i, h>>
    /\ err' = "none"
    /\ ret' = 0
    /\ UNCHANGED <<store, ids, grp, T, dset, pc, visited>>

\* i = h.groups().end() resp. h.datasets().end()
IterEnd(i, h) ==
    /\ ~iter[i].live
    /\ iter' = [iter EXCEPT ![i] = end(h)]
    /\ op' = <<"end", i, h>>
    /\ err' = "none"
    /\ ret' = 0
    /\ UNCHANGED <<store, ids, grp, T, dset, pc, visited>>

\* group_iterator<T> i;
IterDefault(i) ==
    /\ ~iter[i].live
    /\ iter' = [iter EXCEPT ![i] = group_iterator_default]
    /\ op' = <<"default", i>>
    /\ err' = "none"
    /\ ret' = 0
    /\ UNCHANGED <<store, ids, grp, T, dset, pc, visited>>

\* group_iterator<T> i(j);
IterCopy(i, j) ==
    /\ ~iter[i].live
    /\ iter[j].live
    /\ iter' = [iter EXCEPT ![i] = group_iterator_copy(iter[j])]
    /\ op' = <<"copy", i, j>>
    /\ err' = "none"
    /\ ret' = 0
    /\ UNCHANGED <<store, ids, grp, T, dset, pc, visited>>

\* ~group_iterator
IterDestroy(i) ==
    /\ iter[i].live
    /\ ids' = delete_element(ids, iter[i])
    /\ iter' = [iter EXCEPT ![i] = NoIter]
    /\ op' = <<"destroy", i>>
    /\ err' = "none"
    /\ ret' = 0
    /\ UNCHANGED <<store, grp, T, dset, pc, visited>>

\* *i
IterDeref(i) ==
    /\ iter[i].live
    /\ Len(ids) < MaxIds
    /\ LET r == operator_deref(iter[i])
         IN  /\ iter' = [iter EXCEPT ![i] = r.it]
             /\ store' = r.store
             /\ ids' = r.ids
             /\ err' = r.err
             /\ ret' = r.ret
    /\ op' = <<"deref", i>>
    /\ UNCHANGED <<grp, T, dset, pc, visited>>

\* ++i
IterInc(i) ==
    /\ iter[i].live
    /\ LET r == operator_inc(iter[i])
         IN  /\ iter' = [iter EXCEPT ![i] = r.it]
             /\ ids' = r.ids
             /\ err' = r.err
    /\ op' = <<"inc", i>>
    /\ ret' = 0
    /\ UNCHANGED <<store, grp, T, dset, pc, visited>>

\* group_iterator j = i++;
IterPostInc(i, j) ==
    /\ i # j
    /\ iter[i].live
    /\ ~iter[j].live
    /\ LET r == operator_postinc(iter[i])
       IN  /\ iter' = [iter EXCEPT ![i] = r.it,
                                   ![j] = IF r.err = "none" THEN r.ret ELSE @]
           /\ ids' = r.ids
           /\ err' = r.err
    /\ op' = <<"postinc", i, j>>
    /\ ret' = 0
    /\ UNCHANGED <<store, grp, T, dset, pc, visited>>

\* i == j
IterEq(i, j) ==
    /\ i # j
    /\ iter[i].live
    /\ iter[j].live
    /\ LET r == operator_eq(iter[i], iter[j])
         IN  /\ iter' = [iter EXCEPT ![i] = r.this, ![j] = r.other]
             /\ ret' = r.ret
    /\ op' = <<"eq", i, j>>
    /\ err' = "none"
    /\ UNCHANGED <<store, ids, grp, T, dset, pc, visited>>

\* h.close() on a parent that iterators may point to
ParentClose(h) ==
    /\ valid(grp[h])
    /\ LET r == close(ids, grp[h].hid, FALSE)
       IN  /\ grp' = [grp EXCEPT ![h].hid = r.hid]
           /\ ids' = r.ids
           /\ err' = r.err
    /\ op' = <<"close", h>>
    /\ ret' = 0
    /\ UNCHANGED <<store, iter, T, dset, pc, visited>>

NextIter ==
    \/ \E i \in Iters : IterBegin(i, "p")
    \/ \E i \in Iters : IterEnd(i, "p")
    \/ \E i \in Iters : IterDefault(i)
    \/ \E i, j \in Iters : IterCopy(i, j)
    \/ \E i \in Iters : IterDestroy(i)
    \/ \E i \in Iters : IterDeref(i)
    \/ \E i \in Iters : IterInc(i)
    \/ \E i, j \in Iters : IterPostInc(i, j)
    \/ \E i, j \in Iters : IterEq(i, j)
    \/ ParentClose("p")

SpecIter == InitIter /\ [][NextIter]_vars

\* the group a handle is bound to
PathOf(h) == ids[grp[h].hid].path

\* the children of h's group that an iterator of type T yields
MatchingOf(h) == IF valid(grp[h]) THEN Matching(store, PathOf(h), T) ELSE <<>>

IsBegin(it) == it.live /\ it.hist = "begin"

IsEnd(it) == it.live /\ it.hist = "end"

\* C2: begin() == end() holds exactly when the (valid) parent has no child of
\* the container's type, whatever it holds of the other type, and always
\* holds for an invalid parent.
C2_BeginEqEnd ==
    [][\A i, j \in Iters :
         /\ op' = <<"eq", i, j>>
         /\ \/ IsBegin(iter[i]) /\ IsEnd(iter[j])
            \/ IsEnd(iter[i]) /\ IsBegin(iter[j])
         /\ iter[i].parent = iter[j].parent
         /\ valid(grp[iter[i].parent]) \/ 0 \in {iter[i].stop_idx, iter[j].stop_idx}
         => ret' = (MatchingOf(iter[i].parent) = <<>>)]_vars

\* begin() == end() was false over a parent whose first link is of the other type
C2_Witness ==
    /\ op = <<"eq", "i", "j">>
    /\ ret = FALSE
    /\ IsBegin(iter["i"]) /\ IsEnd(iter["j"])
    /\ iter["i"].stop_idx = 2
    /\ valid(grp["p"])

\* C3: two iterators made by begin() over the same unmodified parent compare
\* equal, in either operand order, whether each is still fresh or was resolved
\* by an earlier dereference or comparison.
C3_BeginEqBegin ==
    [][\A i, j \in Iters :
         /\ op' = <<"eq", i, j>>
         /\ IsBegin(iter[i]) /\ IsBegin(iter[j])
         /\ iter[i].parent = iter[j].parent
         /\ valid(grp[iter[i].parent]) \/ (iter[i].stop_idx = 0 /\ iter[j].stop_idx = 0)
         => ret'= TRUE]_vars

\* a begin() compared equal to a begin() that holds a dereferenced child
C3_Witness ==
    /\ op = <<"eq", "j", "i">>
    /\ ret = TRUE
    /\ IsBegin(iter["i"]) /\ IsBegin(iter["j"])
    /\ iter["i"].element # 0
    /\ iter["j"].element = 0

PastEnd(it) == it.stop_idx = npos \/ (it.stop_idx = 0 /\ MatchingOf(it.parent) = <<>>)

\* C4: dereferencing a past-the-end iterator that has a parent fails with
\* OutOfRange, builds no child object and leaves the iterator past-the-end;
\* the error names the parent if it is valid and says that it does not exist
\* otherwise.
C4_DerefPastEnd ==
    [][\A i \in Iters :
         /\ op' = <<"deref", i>>
         /\ iter[i].live
         /\ iter[i].parent # "null"
         /\ PastEnd(iter[i])
         => /\ err' = "OutOfRange"
            /\ ids' = ids
            /\ store' = store
            /\ iter'[i].element = 0
            /\ iter'[i].stop_idx = npos
            /\ ret' = IF valid(grp[iter[i].parent])
                      THEN <<"parent group", PathOf(iter[i].parent)>>
                      ELSE <<"non-existing parent group">>]_vars

\* an iterator advanced past the last match was dereferenced
C4_Witness ==
    /\ op = <<"deref", "i">>
    /\ err = "OutOfRange"
    /\ iter["i"].hist = "moved"
    /\ ret = <<"parent group", Root>>
    /\ MatchingOf("p") # <<>>

(* ----------------- dataspaces, arrays and raw transfers ----------------- *)

\* element values: the transfers copy elements and never inspect them
Values == {0, 1}

RECURSIVE Prod(_)
Prod(shape) == IF shape = <<>> THEN 1 ELSE shape[1] * Prod(Tail(shape))

\* the shapes of the scalar dataspace (rank 0) and of arrays of rank 1..MaxRank
Shapes ==
    {sh \in UNION {[1..r -> 1..MaxElems] : r \in 0..MaxRank} : Prod(sh) <= MaxElems}

\* a boost::multi_array in its default (row-major) storage order: shape() and
\* the elements as origin() presents them
Arrays ==
    UNION {{[shape |-> sh, data |-> d] : d \in [1..Prod(sh) -> Values]} :
               sh \in Shapes \ {<<>>}}

Policies == {"compact", "contiguous", "chunked"}

Zeros(n) == [k \in 1..n |-> 0]

\* the index tuples of a shape in row-major order (first dimension slowest)
RECURSIVE RowMajor(_)
RowMajor(shape) ==
    IF shape = <<>> THEN << <<>> >>
    ELSE LET rest == RowMajor(Tail(shape))
             n    == Len(rest)
         IN  [k \in 1..(shape[1] * n) |->
                <<(k - 1) \div n>> \o rest[((k - 1) % n) + 1]]

\* a dataspace with a hyperslab selection (stride and block 1); the selection
\* of a whole dataspace is start 0 and count = extents
ValidWindow(w) == \A k \in 1..Len(w.extents) : w.start[k] + w.count[k] <= w.extents[k]

\* the hyperslabs of a dataspace of the given shape
Windows(shape) ==
    {w \in [extents : {shape},
            start   : [1..Len(shape) -> 0..(MaxElems - 1)],
            count   : [1..Len(shape) -> 1..MaxElems]] : ValidWindow(w)}

\* the positions (1-based, row-major) of the selected elements, in order
Selected(w) ==
    LET idx == RowMajor(w.extents)
        in(t) == \A k \in 1..Len(t) : t[k] >= w.start[k] /\ t[k] < w.start[k] + w.count[k]
    IN  SelectSeq([k \in 1..Len(idx) |-> k], LAMBDA k : in(idx[k]))

\* element k of a buffer; reading beyond its end yields whatever is there (g)
BufAt(buf, k, g) == IF k <= Len(buf) THEN buf[k] ELSE g

\* dataspace(dset).rank(), extents(), is_scalar()
rank(st, path) == Len(st[path].shape)

extents(st, path) == st[path].shape

\* (mutant) is_scalar that takes every dataspace for scalar
is_scalar_any(st, path) == st[path].shape = st[path].shape

is_scalar(st, path) == st[path].shape = <<>>

\* H5Dwrite(dset, type, H5S_ALL, H5S_ALL, H5P_DEFAULT, buf): takes as many
\* elements from buf as the dataset holds
H5Dwrite_all(st, path, buf, g) ==
    [st EXCEPT ![path].data = [k \in 1..Prod(st[path].shape) |-> BufAt(buf, k, g)]]

\* H5Dread(dset, type, H5S_ALL, H5S_ALL, H5P_DEFAULT, buf)
H5Dread_all(st, path) == st[path].data

\* the windows of a transfer fit the dataset and each other
TransferOk(st, path, mem, file) ==
    /\ ValidWindow(mem)
    /\ ValidWindow(file)
    /\ file.extents = st[path].shape
    /\ Len(Selected(mem)) = Len(Selected(file))

\* H5Dwrite(dset, type, mem_space, file_space, H5P_DEFAULT, buf)
H5Dwrite_sel(st, path, buf, mem, file, g) ==
    LET ms == Selected(mem)
        fs == Selected(file)
    IN  [st EXCEPT ![path].data =
            [k \in 1..Len(@) |->
                IF \E j \in 1..Len(fs) : fs[j] = k
                THEN BufAt(buf, ms[CHOOSE j \in 1..Len(fs) : fs[j] = k], g)
                ELSE @[k]]]

\* H5Dread(dset, type, mem_space, file_space, H5P_DEFAULT, buf) into a buffer
\* of n value-initialised elements
H5Dread_sel(st, path, n, mem, file) ==
    LET ms == Selected(mem)
        fs == Selected(file)
    IN  [k \in 1..n |->
            IF \E j \in 1..Len(ms) : ms[j] = k
            THEN st[path].data[fs[CHOOSE j \in 1..Len(ms) : ms[j] = k]]
            ELSE 0]

\* dataset::dataset(object, name, type, space, policy): creates the dataset,
\* filled with the fill value 0
dataset_create(st, idt, loc_id, name, shape, policy) ==
    IF ~InStore(idt, loc_id, name)
    THEN [store |-> st, err |-> "ResourceError"]
    ELSE IF st[AbsPath(idt, loc_id, name)].kind # "none"
    THEN [store |-> st, err |-> "AlreadyExists"]
    ELSE [store |-> [st EXCEPT ![AbsPath(idt, loc_id, name)] =
                        DatasetNode(shape, Zeros(Prod(shape)))],
          err |-> "none"]

(* ------------------ dataset marshalling: scalars ----------------------- *)

Result(st, e, r) == [store |-> st, err |-> e, ret |-> r]

\* (mutant) create_dataset that opens the dataset when it is there already
create_dataset_scalar_reopen(st, idt, object, name) ==
    IF exists_dataset(st, idt, object, name)
    THEN Result(st, "none", 0)
    ELSE LET c == dataset_create(st, idt, object, name, <<>>, "compact")
         IN  Result(c.store, c.err, 0)

\* create_dataset<T>(object, name), T fundamental
create_dataset_scalar(st, idt, object, name) ==
    IF exists_dataset(st, idt, object, name)
    THEN Result(st, "AlreadyExists", 0)
    ELSE LET c == dataset_create(st, idt, object, name, <<>>, "compact")
         IN  Result(c.store, c.err, 0)

\* (mutant) write_dataset that creates the dataset it does not find
write_dataset_scalar_autocreate(st, idt, object, name, value, g) ==
    IF exists_dataset(st, idt, object, name)
    THEN IF ~is_scalar(st, AbsPath(idt, object, name))
         THEN Result(st, "ShapeMismatch", 0)
         ELSE Result(H5Dwrite_all(st, AbsPath(idt, object, name), <<value>>, g), "none", 0)
    ELSE LET c == dataset_create(st, idt, object, name, <<>>, "compact")
         IN  IF c.err # "none" THEN Result(c.store, c.err, 0)
             ELSE Result(H5Dwrite_all(c.store, AbsPath(idt, object, name), <<value>>, g),
                         "none", 0)

\* write_dataset(object, name, value), T fundamental
write_dataset_scalar(st, idt, object, name, value, g) ==
    IF exists_dataset(st, idt, object, name)
    THEN IF ~is_scalar(st, AbsPath(idt, object, name))
         THEN Result(st, "ShapeMismatch", 0)
         ELSE Result(H5Dwrite_all(st, AbsPath(idt, object, name), <<value>>, g), "none", 0)
    ELSE Result(st, "NotFound", 0)

\* read_dataset<T>(object, name), T fundamental
read_dataset_scalar(st, idt, object, name) ==
    IF dataset_open(st, idt, object, name).err # "none"
    THEN Result(st, dataset_open(st, idt, object, name).err, 0)
    ELSE IF ~is_scalar(st, AbsPath(idt, object, name))
    THEN Result(st, "ShapeMismatch", 0)
    ELSE Result(st, "none", H5Dread_all(st, AbsPath(idt, object, name))[1])

(* --------------- dataset marshalling: boost::multi_array --------------- *)

\* create_dataset(object, name, value, storage_policy): only value.shape() is used
create_dataset_array(st, idt, object, name, value, policy) ==
    LET c == dataset_create(st, idt, object, name, value.shape, policy)
    IN  Result(c.store, c.err, 0)

\* create_dataset(object, name, value)
create_dataset_array_default(st, idt, object, name, value) ==
    create_dataset_array(st, idt, object, name, value, "contiguous")

\* (mutant) write_dataset that transfers nothing
write_dataset_handle_skip(st, path, value, g) ==
    Result(st, "none", 0)

\* write_dataset(dset, value) on the dataset at path
write_dataset_handle(st, path, value, g) ==
    Result(H5Dwrite_all(st, path, value.data, g), "none", 0)

\* write_dataset(dset, value, memspace, filespace) on the dataset at path
write_dataset_handle_win(st, path, value, mem, file, g) ==
    IF TransferOk(st, path, mem, file)
    THEN Result(H5Dwrite_sel(st, path, value.data, mem, file, g), "none", 0)
    ELSE Result(st, "ResourceError", 0)

\* write_dataset(object, name, value)
write_dataset_array(st, idt, object, name, value, g) ==
    IF ~exists_dataset(st, idt, object, name)
    THEN Result(st, "NotFound", 0)
    ELSE write_dataset_handle(st, AbsPath(idt, object, name), value, g)

\* write_dataset(object, name, value, memspace, filespace)
write_dataset_array_win(st, idt, object, name, value, mem, file, g) ==
    IF ~exists_dataset(st, idt, object, name)
    THEN Result(st, "NotFound", 0)
    ELSE write_dataset_handle_win(st, AbsPath(idt, object, name), value, mem, file, g)

\* (mutant) read_dataset without the check of the rank
read_dataset_handle_nocheck(st, path, rankT) ==
    Result(st, "none", [shape |-> extents(st, path), data |-> H5Dread_all(st, path)])

\* read_dataset<T>(dset) on the dataset at path, T of rank rankT
read_dataset_handle(st, path, rankT) ==
    IF ~(rank(st, path) = rankT)
    THEN Result(st, "ShapeMismatch", 0)
    ELSE Result(st, "none", [shape |-> extents(st, path), data |-> H5Dread_all(st, path)])

\* read_dataset<T>(object, name), T of rank rankT
read_dataset_array(st, idt, object, name, rankT) ==
    IF dataset_open(st, idt, object, name).err # "none"
    THEN Result(st, dataset_open(st, idt, object, name).err, 0)
    ELSE IF ~(rank(st, AbsPath(idt, object, name)) = rankT)
    THEN Result(st, "ShapeMismatch", 0)
    ELSE Result(st, "none", [shape |-> extents(st, AbsPath(idt, object, name)),
                             data  |-> H5Dread_all(st, AbsPath(idt, object, name))])

\* read_dataset<T>(dset, memspace, filespace) on the dataset at path
read_dataset_handle_win(st, path, rankT, mem, file) ==
    IF ~(Len(mem.extents) = rankT)
    THEN Result(st, "ShapeMismatch", 0)
    ELSE IF ~TransferOk(st, path, mem, file)
    THEN Result(st, "ResourceError", 0)
    ELSE Result(st, "none",
                [shape |-> mem.extents,
                 data  |-> H5Dread_sel(st, path, Prod(mem.extents), mem, file)])

(* --------------- SpecData: create, write and read datasets ------------- *)

\* the parent of every call is handle p, bound to the root group
ObjectP == grp["p"].hid

NumDatasets(st) == Cardinality({q \in Paths : st[q].kind = "dataset"})

\* the file holds a sub-group at every even name; the odd names are free
InitData ==
    /\ store = [q \in Paths |-> IF q = Root \/ (Len(q) = 1 /\ q[1] % 2 = 0)
                                 THEN GroupNode ELSE NoNode]
    /\ T = "dataset"
    /\ InitHandles
    /\ InitRest
    /\ pc = "off"

DataFrame == UNCHANGED <<ids, grp, iter, T, dset, pc, visited>>

Apply(r) == store' = r.store /\ err' = r.err /\ ret' = r.ret

\* a create call that would add a dataset is taken only below the bound
MayCreate(n) == NumDatasets(store) < MaxDatasets \/ store[<<n>>].kind # "none"

DCreateScalar(n) ==
    /\ MayCreate(n)
    /\ Apply(create_dataset_scalar(store, ids, ObjectP, <<n>>))
    /\ op' = <<"create_scalar", n>>
    /\ DataFrame

DCreateArray(n, X, policy) ==
    /\ MayCreate(n)
    /\ Apply(create_dataset_array(store, ids, ObjectP, <<n>>, X, policy))
    /\ op' = <<"create_array", n, policy>>
    /\ DataFrame

DCreateArrayDefault(n, X) ==
    /\ MayCreate(n)
    /\ Apply(create_dataset_array_default(store, ids, ObjectP, <<n>>, X))
    /\ op' = <<"create_array_default", n>>
    /\ DataFrame

DWriteScalar(n, v) ==
    /\ \E g \in Values : Apply(write_dataset_scalar(store, ids, ObjectP, <<n>>, v, g))
    /\ op' = <<"write_scalar", n, v>>
    /\ DataFrame

DWriteArray(n, X) ==
    /\ \E g \in Values : Apply(write_dataset_array(store, ids, ObjectP, <<n>>, X, g))
    /\ op' = <<"write_array", n, X>>
    /\ DataFrame

\* the file window is a selection of the dataset's own dataspace (of the
\* array's, when there is no dataset), the memory window one of the array's
FileShape(n, X) == IF store[<<n>>].kind = "dataset" THEN store[<<n>>].shape ELSE X.shape

DWriteArrayWin(n, X) ==
    /\ \E mem \in Windows(X.shape), file \in Windows(FileShape(n, X)) :
         Apply(write_dataset_array_win(store, ids, ObjectP, <<n>>, X, mem, file, 0))
    /\ op' = <<"write_array_win", n>>
    /\ DataFrame

\* dataset dset(p, name);
DOpen(n) ==
    /\ ~dset.live
    /\ Len(ids) < 1 + MaxOpens
    /\ LET r == dataset_open(store, ids, ObjectP, <<n>>)
       IN  /\ ids' = r.ids
           /\ dset' = IF r.err = "none" THEN [live |-> TRUE, hid |-> r.hid] ELSE dset
           /\ err' = r.err
    /\ op' = <<"open_dataset", n>>
    /\ ret' = 0
    /\ UNCHANGED <<store, grp, iter, T, pc, visited>>

\* ~dataset
DClose ==
    /\ dset.live
    /\ ids' = close(ids, dset.hid, FALSE).ids
    /\ dset' = NoHandle
    /\ op' = <<"close_dataset">>
    /\ err' = "none"
    /\ ret' = 0
    /\ UNCHANGED <<store, grp, iter, T, pc, visited>>

DsetPath == ids[dset.hid].path

DWriteHandle(X) ==
    /\ dset.live
    /\ \E g \in Values : Apply(write_dataset_handle(store, DsetPath, X, g))
    /\ op' = <<"write_handle", X>>
    /\ DataFrame

DWriteHandleWin(X) ==
    /\ dset.live
    /\ \E mem \in Windows(X.shape), file \in Windows(store[DsetPath].shape) :
         Apply(write_dataset_handle_win(store, DsetPath, X, mem, file, 0))
    /\ op' = <<"write_handle_win">>
    /\ DataFrame

DReadScalar(n) ==
    /\ Apply(read_dataset_scalar(store, ids, ObjectP, <<n>>))
    /\ op' = <<"read_scalar", n>>
    /\ DataFrame

DReadArray(n, rankT) ==
    /\ Apply(read_dataset_array(store, ids, ObjectP, <<n>>, rankT))
    /\ op' = <<"read_array", n, rankT>>
    /\ DataFrame

DReadHandle(rankT) ==
    /\ dset.live
    /\ Apply(read_dataset_handle(store, DsetPath, rankT))
    /\ op' = <<"read_handle", rankT>>
    /\ DataFrame

DReadHandleWin(rankT, sh) ==
    /\ dset.live
    /\ \E mem \in Windows(sh), file \in Windows(store[DsetPath].shape) :
         /\ Apply(read_dataset_handle_win(store, DsetPath, rankT, mem, file))
         /\ op' = <<"read_handle_win", rankT, mem.extents>>
    /\ DataFrame

Ranks == 1..MaxRank

\* create reads only value.shape(), and no statement about a windowed write
\* depends on the values transferred: these calls draw one array per shape
ZeroArrays == {X \in Arrays : \A k \in 1..Len(X.data) : X.data[k] = 0}

OneArrays == {X \in Arrays : \A k \in 1..Len(X.data) : X.data[k] = 1}

NextData ==
    \/ \E n \in Names : DCreateScalar(n)
    \/ \E n \in Names, X \in ZeroArrays, policy \in Policies : DCreateArray(n, X, policy)
    \/ \E n \in Names, X \in ZeroArrays : DCreateArrayDefault(n, X)
    \/ \E n \in Names, v \in Values : DWriteScalar(n, v)
    \/ \E n \in Names, X \in Arrays : DWriteArray(n, X)
    \/ \E n \in Names, X \in OneArrays : DWriteArrayWin(n, X)
    \/ \E n \in Names : DOpen(n)
    \/ DClose
    \/ \E X \in Arrays : DWriteHandle(X)
    \/ \E X \in OneArrays : DWriteHandleWin(X)
    \/ \E n \in Names : DReadScalar(n)
    \/ \E n \in Names, r \in Ranks : DReadArray(n, r)
    \/ \E r \in Ranks : DReadHandle(r)
    \/ \E r \in Ranks, sh \in Shapes : DReadHandleWin(r, sh)

SpecData == InitData /\ [][NextData]_vars

(* ------------------------- claims on datasets -------------------------- *)

IsDataset(n) == store[<<n>>].kind = "dataset"

NamedWrites == {"write_scalar", "write_array", "write_array_win"}

\* C5: a write addressed by (parent, name), in its scalar, multi_array and
\* windowed multi_array forms, to a name under which no dataset exists fails
\* with NotFound and leaves the store as it was: no node created, no data changed.
C5_WriteAbsent ==
    [][(op'[1] \in NamedWrites /\ ~exists_dataset(store, ids, ObjectP, <<op'[2]>>))
          => (err' = "NotFound" /\ store' = store)]_vars

\* a windowed write to a name that holds a group failed, with a dataset in the file
C5_Witness ==
    /\ op = <<"write_array_win", 2>>
    /\ err = "NotFound"
    /\ store[<<2>>].kind = "group"
    /\ IsDataset(1)

Creates == {"create_scalar", "create_array", "create_array_default"}

\* C6: a create at a name that already denotes a node (a dataset or a group)
\* fails with AlreadyExists, for the scalar and the multi_array creation and for
\* every storage policy, and leaves the node's shape and data unchanged.
C6_CreateExisting ==
    [][(op'[1] \in Creates /\ store[<<op'[2]>>].kind # "none")
          => (err' = "AlreadyExists" /\ store' = store)]_vars

\* a chunked create on top of a dataset that holds written data failed
C6_Witness ==
    /\ op = <<"create_array", 1, "chunked">>
    /\ err = "AlreadyExists"
    /\ IsDataset(1)
    /\ store[<<1>>].data = <<1, 0>>

\* C7: for a dataset of matching shape, whatever was written to it before,
\* write(parent, name, X) succeeds and the read(parent, name) that follows it
\* returns X, for a scalar X and for an array X.
C7_RoundTrip ==
    [][/\ (/\ op[1] = "write_array"
           /\ IsDataset(op[2])
           /\ store[<<op[2]>>].shape = op[3].shape
           /\ op' = <<"read_array", op[2], Len(op[3].shape)>>)
          => (err = "none" /\ err' = "none" /\ ret' = op[3])
       /\ (/\ op[1] = "write_scalar"
           /\ IsDataset(op[2])
           /\ store[<<op[2]>>].shape = <<>>
           /\ op' = <<"read_scalar", op[2]>>)
          => (err = "none" /\ err' = "none" /\ ret' = op[3])]_vars

\* a rank-2 array other than the fill value was read back
C7_Witness ==
    /\ op = <<"read_array", 1, 2>>
    /\ err = "none"
    /\ ret = [shape |-> <<1, 2>>, data |-> <<0, 1>>]

\* what a read of the dataset at path through an array type of rank rankT gives
ReadChecked(path, rankT) ==
    IF Len(store[path].shape) # rankT
    THEN err' = "ShapeMismatch" /\ ret' = 0
    ELSE err' = "none" /\ ret'.shape = store[path].shape

\* C8: a read of an existing dataset through an array type whose rank differs
\* from the stored rank fails with ShapeMismatch, by name and by handle; with
\* equal ranks it succeeds and the array's extents are the stored extents.
C8_ReadRank ==
    [][/\ (op'[1] = "read_array" /\ IsDataset(op'[2]))
          => ReadChecked(<<op'[2]>>, op'[3])
       /\ (op'[1] = "read_handle")
          => ReadChecked(DsetPath, op'[2])]_vars

\* a rank-2 dataset was read through its handle as a rank-1 array
C8_Witness ==
    /\ op = <<"read_handle", 1>>
    /\ err = "ShapeMismatch"
    /\ dset.live
    /\ store[DsetPath].shape = <<1, 2>>

\* C9: a write of an array whose shape differs from the dataset's, through the
\* handle or by name, is reported as ShapeMismatch and transfers nothing.
C9_WriteShapeChecked ==
    [][/\ (op'[1] = "write_handle" /\ store[DsetPath].shape # op'[2].shape)
          => (err' = "ShapeMismatch" /\ store' = store)
       /\ (op'[1] = "write_array" /\ IsDataset(op'[2])
             /\ store[<<op'[2]>>].shape # op'[3].shape)
          => (err' = "ShapeMismatch" /\ store' = store)]_vars

(* ------------- SpecHandle: the life cycle of group handles ------------- *)

\* the names a group is opened by: relative paths of one or more segments
RelNames == Paths \ {Root}

InitHandle ==
    /\ store \in FlatStores
    /\ T = "group"
    /\ InitHandles
    /\ InitRest
    /\ pc = "off"

HandleFrame == UNCHANGED <<iter, T, dset, pc, visited, ret>>

\* group h;
HDefault(h) ==
    /\ ~grp[h].live
    /\ grp' = [grp EXCEPT ![h] = [live |-> TRUE, hid |-> -1]]
    /\ op' = <<"default", h>>
    /\ err' = "none"
    /\ UNCHANGED <<store, ids>>
    /\ HandleFrame

\* group h(file); opens the root group
HRoot(h) ==
    /\ ~grp[h].live
    /\ Len(ids) < MaxIds
    /\ ids' = NewId(ids, Root)
    /\ grp' = [grp EXCEPT ![h] = [live |-> TRUE, hid |-> Len(ids) + 1]]
    /\ op' = <<"root", h>>
    /\ err' = "none"
    /\ UNCHANGED store
    /\ HandleFrame

\* group h(other, name); a constructor that throws leaves no object
HConstruct(h, other, name) ==
    /\ ~grp[h].live
    /\ grp[other].live
    /\ Len(ids) < MaxIds
    /\ LET r == open(store, ids, -1, grp[other].hid, name)
       IN  /\ store' = r.store
           /\ ids' = r.ids
           /\ err' = r.err
           /\ grp' = IF r.err = "none"
                     THEN [grp EXCEPT ![h] = [live |-> TRUE, hid |-> r.hid]]
                     ELSE grp
    /\ op' = <<"construct", h, other, name>>
    /\ HandleFrame

\* h.open(other, name)
HOpen(h, other, name) ==
    /\ grp[h].live
    /\ grp[other].live
    /\ Len(ids) < MaxIds
    /\ LET r == open(store, ids, grp[h].hid, grp[other].hid, name)
       IN  /\ store' = r.store
           /\ ids' = r.ids
           /\ err' = r.err
           /\ grp' = IF r.err = "none" THEN [grp EXCEPT ![h].hid = r.hid] ELSE grp
    /\ op' = <<"open", h, other, name>>
    /\ HandleFrame

\* h.close(); fail: the store refuses the close
HClose(h, fail) ==
    /\ grp[h].live
    /\ LET r == close(ids, grp[h].hid, fail)
       IN  /\ ids' = r.ids
           /\ err' = r.err
           /\ grp' = [grp EXCEPT ![h].hid = r.hid]
    /\ op' = <<"close", h, fail>>
    /\ UNCHANGED store
    /\ HandleFrame

\* ~group: h goes out of scope
HDestroy(h) ==
    /\ grp[h].live
    /\ ids' = close(ids, grp[h].hid, FALSE).ids
    /\ grp' = [grp EXCEPT ![h] = NoHandle]
    /\ op' = <<"destroy", h>>
    /\ err' = "none"
    /\ UNCHANGED store
    /\ HandleFrame

\* (mutant) swap that exchanges nothing
swap_noexchange(a, b) == <<a, b>>

\* swap(group&, group&): the two handles exchange their ids
swap(a, b) == <<b, a>>

\* h = group(other, name): the temporary is built in the parameter of
\* operator= (the copy is elided), swapped with h, and destroyed with the id
\* h held before
HAssignTemp(h, other, name) ==
    /\ grp[h].live
    /\ grp[other].live
    /\ Len(ids) < MaxIds
    /\ LET t == open(store, ids, -1, grp[other].hid, name)
       IN  /\ store' = t.store
           /\ err' = t.err
           /\ IF t.err = "none"
              THEN LET s == swap(grp[h].hid, t.hid)
                   IN  /\ grp' = [grp EXCEPT ![h].hid = s[1]]
                       /\ ids' = close(t.ids, s[2], FALSE).ids
              ELSE /\ grp' = grp
                   /\ ids' = t.ids
    /\ op' = <<"assign_temp", h, other, name>>
    /\ HandleFrame

\* h = g for a named handle g: the parameter of operator= is copy-constructed
\* from g, and the copy constructor throws
HAssignCopy(h, g) ==
    /\ grp[h].live
    /\ grp[g].live
    /\ LET c == group_copy(ids, grp[g].hid)
       IN  /\ err' = c.err
           /\ IF c.err = "none"
              THEN LET s == swap(grp[h].hid, c.hid)
                   IN  /\ grp' = [grp EXCEPT ![h].hid = s[1]]
                       /\ ids' = close(c.ids, s[2], FALSE).ids
              ELSE /\ grp' = grp
                   /\ ids' = c.ids
    /\ op' = <<"assign_copy", h, g>>
    /\ UNCHANGED store
    /\ HandleFrame

\* group h(g): the copy constructor throws, no object comes to be
HCopyConstruct(h, g) ==
    /\ ~grp[h].live
    /\ grp[g].live
    /\ LET c == group_copy(ids, grp[g].hid)
       IN  /\ err' = c.err
           /\ ids' = c.ids
           /\ grp' = IF c.err = "none"
                     THEN [grp EXCEPT ![h] = [live |-> TRUE, hid |-> c.hid]]
                     ELSE grp
    /\ op' = <<"copy", h, g>>
    /\ UNCHANGED store
    /\ HandleFrame

\* create_dataset<T>(other, n), T fundamental; the dataset handle it returns
\* is dropped at once
HCreateDataset(other, n) ==
    /\ grp[other].live
    /\ LET c == create_dataset_scalar(store, ids, grp[other].hid, <<n>>)
       IN  /\ store' = c.store
           /\ err' = c.err
    /\ op' = <<"create_dataset", other, <<n>> >>
    /\ UNCHANGED <<ids, grp>>
    /\ HandleFrame

NextHandle ==
    \/ \E h \in Handles : HDefault(h)
    \/ \E h \in Handles : HRoot(h)
    \/ \E h \in Handles, other \in Handles, name \in RelNames : HConstruct(h, other, name)
    \/ \E h \in Handles, other \in Handles, name \in RelNames : HOpen(h, other, name)
    \/ \E h \in Handles, fail \in BOOLEAN : HClose(h, fail)
    \/ \E h \in Handles : HDestroy(h)
    \/ \E h \in Handles, other \in Handles, name \in RelNames : HAssignTemp(h, other, name)
    \/ \E h \in Handles, g \in Handles : HAssignCopy(h, g)
    \/ \E h \in Handles, g \in Handles : HCopyConstruct(h, g)
    \/ \E other \in Handles, n \in Names : HCreateDataset(other, n)

SpecHandle == InitHandle /\ [][NextHandle]_vars

(* ---------------------- claims on group handles ------------------------ *)

\* the live handles bound to id
Holders(id) == {h \in Handles : grp[h].live /\ grp[h].hid = id}

C11_OpenBound ==
    [][(op'[1] = "open" /\ grp[op'[2]].hid >= 0)
          => (/\ err' = "ResourceError"
              /\ grp' = grp
              /\ store' = store
              /\ ids' = ids)]_vars

\* the bound handle p was asked to open a name that is free, under itself
C11_Witness ==
    /\ op = <<"open", "p", "p", <<1>> >>
    /\ err = "ResourceError"
    /\ grp["p"].hid = 1
    /\ IsOpen(ids, 1)
    /\ store[<<1>>].kind = "none"

\* C12: close() is idempotent. On an unbound handle it does nothing and calls
\* nothing in the store; a close that succeeds on a bound handle closes its id
\* once and leaves the handle unbound (valid() false), so that further closes
\* reach the store no more; a close the store refuses surfaces ResourceError
\* and leaves the handle bound to the same id.
C12_CloseIdempotent ==
    [][(op'[1] = "close") =>
          LET h == op'[2]
              id == grp[h].hid
          IN  IF id < 0
              THEN err' = "none" /\ grp' = grp /\ ids' = ids
              ELSE IF op'[3]
              THEN err' = "ResourceError" /\ grp' = grp /\ ids' = ids
              ELSE /\ err' = "none"
                   /\ ~valid(grp'[h])
                   /\ ids' = [ids EXCEPT ![id].closes = @ + 1]]_vars

\* p, closed before, was closed again while the store refuses every close:
\* no error, and the id still closed once
C12_Witness ==
    /\ op = <<"close", "p", TRUE>>
    /\ err = "none"
    /\ grp["p"] = [live |-> TRUE, hid |-> -1]
    /\ Len(ids) = 1
    /\ ids[1].closes = 1

\* the call h.open(other, name) finds h unbound and other bound to an open group
OpensUnbound ==
    /\ op'[1] = "open"
    /\ grp[op'[2]].hid < 0
    /\ InStore(ids, grp[op'[3]].hid, op'[4])

TargetOf == AbsPath(ids, grp[op'[3]].hid, op'[4])

\* h is bound to a new id on the target and no other id changed
BoundToTarget ==
    /\ err' = "none"
    /\ valid(grp'[op'[2]])
    /\ ids' = Append(ids, [path |-> TargetOf, closes |-> 0, refs |-> 1])
    /\ grp' = [grp EXCEPT ![op'[2]].hid = Len(ids')]

\* the target and every missing segment on the way to it became a group
CreatedWithIntermediates ==
    \A q \in Paths :
        store'[q] = IF IsPrefix(q, TargetOf) /\ store[q].kind = "none"
                    THEN GroupNode ELSE store[q]

\* a segment of the name above the target is bound to a dataset
ThroughDataset ==
    \E k \in 1..(Len(op'[4]) - 1) :
        store[ids[grp[op'[3]].hid].path \o Prefix(op'[4], k)].kind = "dataset"

\* C13 as stated: open on an unbound handle binds to the group of that name
\* and leaves the nodes alone, or, where no node has that name, creates the
\* group and every missing intermediate segment and binds to it; the handle is
\* valid afterwards.
C13_OpenUnbound_Stated ==
    [][OpensUnbound =>
          /\ store[TargetOf].kind = "group" => (BoundToTarget /\ store' = store)
          /\ store[TargetOf].kind = "none"
                => (BoundToTarget /\ CreatedWithIntermediates)]_vars

\* C13 (amended): as stated when no intermediate segment of the name is a
\* dataset; when one is, nothing can be created below it: the open fails with
\* ResourceError, the handle stays unbound and store and ids are unchanged.
C13_OpenUnbound ==
    [][OpensUnbound =>
          /\ store[TargetOf].kind = "group" => (BoundToTarget /\ store' = store)
          /\ (store[TargetOf].kind = "none" /\ ~ThroughDataset)
                => (BoundToTarget /\ CreatedWithIntermediates)
          /\ (store[TargetOf].kind = "none" /\ ThroughDataset)
                => (/\ err' = "ResourceError"
                    /\ grp' = grp
                    /\ store' = store
                    /\ ids' = ids)]_vars

\* the first open of the run bound q to a group two levels below the root,
\* next to a dataset
C13_Witness ==
    /\ op = <<"open", "q", "p", <<1, 2>> >>
    /\ err = "none"
    /\ grp["q"] = [live |-> TRUE, hid |-> 2]
    /\ ids = <<[path |-> Root, closes |-> 0, refs |-> 1], [path |-> <<1, 2>>, closes |-> 0, refs |-> 1]>>
    /\ store[<<1>>].kind = "group"
    /\ store[<<1, 2>>].kind = "group"
    /\ store[<<2>>].kind = "dataset"

(* --------------------- further claims on iterators --------------------- *)

\* C14: ++it and it++ on an iterator without a parent (default-constructed, or
\* a copy of one) fail with InvalidState and leave it past-the-end with no
\* element, and it++ hands out no copy; *it fails as well and runs no
\* enumeration: the iterator, the store and the ids stay as they were.
C14_ParentlessFails ==
    [][/\ (op'[1] \in {"inc", "postinc"} /\ iter[op'[2]].parent = "null")
          => (/\ err' = "InvalidState"
              /\ iter'[op'[2]].stop_idx = npos
              /\ iter'[op'[2]].element = 0
              /\ iter'[op'[2]].parent = "null"
              /\ \A j \in Iters \ {op'[2]} : iter'[j] = iter[j]
              /\ store' = store
              /\ ids' = ids)
       /\ (op'[1] = "deref" /\ iter[op'[2]].parent = "null")
          => (/\ err' = "InvalidState"
              /\ iter' = iter
              /\ store' = store
              /\ ids' = ids)]_vars

\* j = i++ was called on a default-constructed i: it threw and j was not built
C14_Witness ==
    /\ op = <<"postinc", "i", "j">>
    /\ err = "InvalidState"
    /\ iter["i"].live
    /\ iter["i"].parent = "null"
    /\ iter["i"].stop_idx = npos
    /\ ~iter["j"].live

(* ------- SpecRescan: traversals with changes of the links between ------- *)
\* The container holds nothing but the address of the parent; the loop of
\* SpecLoop is run again after a link was added to or removed from the
\* parent. A change is logged in visited as the marker 0.

Marker == 0

Restarts == Cardinality({k \in 1..Len(visited) : visited[k] = Marker})

BetweenTraversals == pc \in {"start", "done"} /\ Restarts < MaxRestarts

ChildPath(n) == ids[1].path \o <<n>>

\* group(p, name) as a temporary: creates the sub-group and closes its id
RAddGroup(n) ==
    /\ BetweenTraversals
    /\ store[ChildPath(n)].kind = "none"
    /\ LET r == open(store, ids, -1, grp["p"].hid, <<n>>)
       IN  /\ store' = r.store
           /\ ids' = close(r.ids, r.hid, FALSE).ids
           /\ err' = r.err
    /\ pc' = "start"
    /\ visited' = Append(visited, Marker)
    /\ op' = <<"add_group", n>>
    /\ ret' = 0
    /\ UNCHANGED <<grp, iter, T, dset>>

\* create_dataset<T>(p, name)
RAddDataset(n) ==
    /\ BetweenTraversals
    /\ store[ChildPath(n)].kind = "none"
    /\ LET r == create_dataset_scalar(store, ids, grp["p"].hid, <<n>>)
       IN  store' = r.store /\ err' = r.err
    /\ pc' = "start"
    /\ visited' = Append(visited, Marker)
    /\ op' = <<"add_dataset", n>>
    /\ ret' = 0
    /\ UNCHANGED <<ids, grp, iter, T, dset>>

\* the link is removed from the parent, with what is below it
RUnlink(n) ==
    /\ BetweenTraversals
    /\ store[ChildPath(n)].kind # "none"
    /\ store' = [q \in Paths |-> IF IsPrefix(ChildPath(n), q) THEN NoNode ELSE store[q]]
    /\ pc' = "start"
    /\ visited' = Append(visited, Marker)
    /\ op' = <<"unlink", n>>
    /\ err' = "none"
    /\ ret' = 0
    /\ UNCHANGED <<ids, grp, iter, T, dset>>

NextRescan ==
    \/ LoopBegin
    \/ LoopTest
    \/ LoopDeref
    \/ LoopIncr
    \/ \E n \in Names : RAddGroup(n)
    \/ \E n \in Names : RAddDataset(n)
    \/ \E n \in Names : RUnlink(n)

SpecRescan == InitLoop /\ [][NextRescan]_vars

\* the dereferences of the traversal under way: visited after the last marker
RECURSIVE SinceMarker(_)
SinceMarker(s) ==
    IF s = <<>> \/ Last(s) = Marker THEN <<>>
    ELSE Append(SinceMarker(SubSeq(s, 1, Len(s) - 1)), Last(s))

\* C15: nothing is cached. A traversal begun after links were added to or
\* removed from the parent, with the iterator of the earlier traversal still
\* there, dereferences a prefix of the matching children the parent has now
\* and, when it ends, exactly those.
C15_NothingCached ==
    LET want == Matching(store, ids[1].path, T)
    IN  /\ pc # "failed"
        /\ IsPrefix(SinceMarker(visited), want)
        /\ pc = "done" => SinceMarker(visited) = want

\* three traversals over groups: one child, then two after an addition, then
\* one after a removal
C15_Witness ==
    /\ pc = "done"
    /\ T = "group"
    /\ ids[1].path = Root
    /\ visited = <<1, Marker, 1, 2, Marker, 2>>

(* ---------------------- further claims on datasets --------------------- *)

\* C16: read(dset, memspace, filespace) fails with a shape error whenever the
\* rank of memspace differs from the rank the dataset is stored with; where it
\* returns, the extents of the array are those of memspace.
C16_ReadWindowRank ==
    [][(op'[1] = "read_handle_win") =>
          IF Len(op'[3]) # Len(store[DsetPath].shape)
          THEN err' = "ShapeMismatch"
          ELSE err' = "none" => ret'.shape = op'[3]]_vars

\* C17: at one position the child object is built at most once. A dereference
\* of an iterator that holds an element returns that element and opens
\* nothing; a dereference that builds one opens the child named by the
\* iterator's resolved name under its parent; every increment destroys the
\* element (closing its id once) and leaves the iterator without one, so the
\* next dereference builds anew. An element held is always open and named
\* by the resolved name.
C17_ElementOnce ==
    [][/\ (op'[1] = "deref" /\ iter[op'[2]].element # 0)
          => (/\ err' = "none"
              /\ ret' = iter[op'[2]].element
              /\ iter'[op'[2]].element = iter[op'[2]].element
              /\ ids' = ids)
       /\ (op'[1] = "deref" /\ iter[op'[2]].element = 0 /\ err' = "none")
          => (/\ ret' = Len(ids) + 1
              /\ iter'[op'[2]].element = ret'
              /\ ids' = Append(ids, [path   |-> PathOf(iter[op'[2]].parent)
                                                   \o iter'[op'[2]].name,
                                     closes |-> 0, refs |-> 1]))
       /\ (op'[1] \in {"inc", "postinc"} /\ iter[op'[2]].element # 0)
          => (/\ iter'[op'[2]].element = 0
              /\ ids' = [ids EXCEPT ![iter[op'[2]].element].closes = @ + 1])
       /\ \A i \in Iters :
             iter[i].element # 0
                => (/\ IsOpen(ids, iter[i].element)
                    /\ iter[i].stop_idx \notin {0, npos}
                    /\ ids[iter[i].element].path = ids[1].path \o iter[i].name)]_vars

\* after an increment the dereference built a second object, for the second
\* child, the first one having been destroyed
C17_Witness ==
    /\ op = <<"deref", "i">>
    /\ err = "none"
    /\ iter["i"].element = 3
    /\ ret = 3
    /\ ids[2] = [path |-> <<1>>, closes |-> 1, refs |-> 1]
    /\ ids[3] = [path |-> <<2>>, closes |-> 0, refs |-> 1]

\* C18: in every reachable state a live iterator that is past-the-end has an
\* empty resolved name (get_name() returns the empty string).
C18_PastEndNameEmpty ==
    \A i \in Iters :
        (iter[i].live /\ iter[i].parent # "null" /\ PastEnd(iter[i]))
            => iter[i].name = <<>>

\* C19: h = group(other, name), when the temporary could be built, leaves h
\* bound to the temporary's id, which stays open, and closes the id h held
\* before exactly once, every other id being untouched; h = g for a named
\* handle g fails with an error and changes neither a handle, nor an id, nor
\* the store.
C19_Assign ==
    [][/\ (op'[1] = "assign_temp" /\ err' = "none")
          => LET h   == op'[2]
                 old == grp[h].hid
                 new == grp'[h].hid
             IN  /\ new \in (Len(ids) + 1)..Len(ids')
                 /\ new # old
                 /\ ids'[new].path = AbsPath(ids, grp[op'[3]].hid, op'[4])
                 /\ ids'[new].closes = 0
                 /\ \A g \in DOMAIN grp : g # h => grp'[g] = grp[g]
                 /\ \A k \in 1..Len(ids) :
                       ids'[k] = IF k = old
                                 THEN [ids[k] EXCEPT !.closes = ids[k].closes + 1]
                                 ELSE ids[k]
                 /\ old >= 0 => ids[old].closes = 0 /\ ids'[old].closes = 1
       /\ (op'[1] = "assign_temp" /\ err' # "none")
          => (grp' = grp /\ store' = store
              /\ \A k \in 1..Len(ids) : ids'[k] = ids[k])
       /\ (op'[1] = "assign_copy")
          => (err' = "ResourceError" /\ grp' = grp /\ ids' = ids /\ store' = store)]_vars

\* a bound handle was assigned a temporary: its former id is closed, the
\* temporary's id is open in its place
C19_Witness ==
    /\ op[1] = "assign_temp"
    /\ err = "none"
    /\ \E k \in 1..Len(ids) :
          /\ k < grp[op[2]].hid
          /\ ids[k].closes = 1
          /\ \A g \in DOMAIN grp : grp[g].hid # k
    /\ ids[grp[op[2]].hid].closes = 0

\* the name of an open or construct call is bound to a dataset under a valid
\* parent, and the handle is not bound
OpensOnDataset ==
    /\ op'[1] \in {"open", "construct"}
    /\ grp[op'[2]].hid < 0
    /\ InStore(ids, grp[op'[3]].hid, op'[4])
    /\ store[AbsPath(ids, grp[op'[3]].hid, op'[4])].kind = "dataset"

\* C20: a group open (or construction) on a name bound to a dataset fails with
\* ResourceError, leaves the handle unbound, opens no id and changes no node;
\* and over every step of group opens and dataset creates a name bound to a
\* group stays a group and a name bound to a dataset stays that dataset, a
\* dataset create on a name that is bound failing with AlreadyExists.
C20_GroupOnDataset ==
    [][/\ OpensOnDataset
          => (/\ err' = "ResourceError"
              /\ grp' = grp
              /\ ~valid(grp'[op'[2]])
              /\ ids' = ids
              /\ store' = store)
       /\ \A q \in Paths :
             store[q].kind # "none" => store'[q] = store[q]
       /\ (/\ op'[1] = "create_dataset"
           /\ InStore(ids, grp[op'[2]].hid, op'[3])
           /\ store[AbsPath(ids, grp[op'[2]].hid, op'[3])].kind # "none")
          => (err' = "AlreadyExists" /\ store' = store)]_vars

\* q.open(p, "2") failed on the dataset "2", which a dataset create had made
\* after groups were opened
C20_Witness ==
    /\ op[1] = "open"
    /\ err = "ResourceError"
    /\ grp[op[2]].hid < 0
    /\ InStore(ids, grp[op[3]].hid, op[4])
    /\ store[AbsPath(ids, grp[op[3]].hid, op[4])].kind = "dataset"
    /\ Len(op[4]) = 1
    /\ Len(ids[grp[op[3]].hid].path) = 1

\* C21: copy-constructing a group handle from another handle (group h(g), or
\* the parameter of h = g) always fails with an error; every handle, the
\* source included, keeps its id, and no id gets a further reference or a
\* close.
C21_CopyFails ==
    [][(op'[1] \in {"copy", "assign_copy"})
          => (/\ err' # "none"
              /\ grp' = grp
              /\ \A id \in 1..Len(ids) :
                    /\ ids'[id].refs = ids[id].refs
                    /\ ids'[id].closes = ids[id].closes
              /\ Len(ids') = Len(ids)
              /\ store' = store)]_vars

\* a copy of a handle bound to an open id was attempted
C21_Witness ==
    /\ op[1] = "copy"
    /\ err = "ResourceError"
    /\ ~grp[op[2]].live
    /\ valid(grp[op[3]])
    /\ ids[grp[op[3]].hid].refs = 1
    /\ ids[grp[op[3]].hid].closes = 0

\* the dataset named by the call exists and its stored dataspace is not scalar
NonScalarTarget ==
    /\ exists_dataset(store, ids, ObjectP, <<op'[2]>>)
    /\ store[<<op'[2]>>].shape # <<>>

\* C22: the scalar write(parent, name, value) to an existing dataset whose
\* stored dataspace is not scalar fails with an error and leaves the store,
\* the dataset's data included, unchanged; the scalar read(parent, name) of
\* such a dataset fails likewise, returns no value and changes nothing.
C22_ScalarOnArray ==
    [][/\ (op'[1] = "write_scalar" /\ NonScalarTarget)
          => (err' = "ShapeMismatch" /\ store' = store)
       /\ (op'[1] = "read_scalar" /\ NonScalarTarget)
          => (err' = "ShapeMismatch" /\ store' = store
              /\ ret' = Result(store, "ShapeMismatch", 0).ret)]_vars

\* a scalar write of 1 was refused by a dataset of rank 1 or more, whose data
\* are still the zeros it was created with
C22_Witness ==
    /\ op[1] = "write_scalar"
    /\ op[3] = 1
    /\ err = "ShapeMismatch"
    /\ store[<<op[2]>>].kind = "dataset"
    /\ Len(store[<<op[2]>>].shape) >= 1
    /\ \A k \in DOMAIN store[<<op[2]>>].data : store[<<op[2]>>].data[k] = 0

\* the names an iterator yields from where it stands: dereference, increment,
\* dereference, ... until it is past-the-end, over the store as it is
RECURSIVE Yield(_)
Yield(it) ==
    IF it.parent = "null"
    THEN <<>>
    ELSE LET a == init_if_fresh(it)
         IN  IF a.stop_idx = npos
             THEN <<>>
             ELSE <<a.name>> \o Yield(operator_inc(a).it)

\* a fresh iterator resolved to the first match of its parent, or to
\* past-the-end where there is none; nothing else of it changed
ResolvedFrom(new, old) ==
    /\ new = [old EXCEPT !.stop_idx = new.stop_idx, !.name = new.name]
    /\ IF MatchingOf(old.parent) = <<>>
       THEN new.stop_idx = npos /\ new.name = <<>>
       ELSE new.stop_idx \notin {0, npos} /\ new.name = <<MatchingOf(old.parent)[1]>>

\* C23: a comparison changes neither the store, nor an id, nor a handle; each
\* operand yields after it the same sequence of children as before it, and
\* is itself unchanged unless it was fresh, in which case it is resolved to
\* its first match (or to past-the-end).
C23_EqNoEffect ==
    [][(op'[1] = "eq")
          => (/\ store' = store /\ ids' = ids /\ grp' = grp
              /\ \A k \in {op'[2], op'[3]} :
                    /\ Yield(iter'[k]) = Yield(iter[k])
                    /\ IF iter[k].stop_idx = 0
                       THEN ResolvedFrom(iter'[k], iter[k])
                       ELSE iter'[k] = iter[k]
              /\ \A k \in Iters \ {op'[2], op'[3]} : iter'[k] = iter[k])]_vars

\* a fresh iterator over a parent with two matching children was compared and
\* stands on the first of them, with both still to come
C23_Witness ==
    /\ op = <<"eq", "i", "j">>
    /\ iter["i"].hist = "begin"
    /\ iter["i"].stop_idx \notin {0, npos}
    /\ iter["i"].element = 0
    /\ Len(Yield(iter["i"])) = 2
    /\ IsEnd(iter["j"])
    /\ ret = FALSE

\* C24: past-the-end is absorbing. An increment (prefix or postfix) that does
\* not fail, applied to an iterator that is past-the-end (a fresh iterator
\* over a parent without a matching child, or over a closed parent, included),
\* leaves it at the past-the-end index, so that it compares equal to end()
\* and yields no child any more.
C24_EndAbsorbing ==
    [][(/\ op'[1] \in {"inc", "postinc"}
        /\ iter[op'[2]].parent # "null"
        /\ PastEnd(iter[op'[2]]))
          => (/\ err' = "none"
              /\ iter'[op'[2]].stop_idx = npos
              /\ PastEnd(iter'[op'[2]])
              /\ operator_eq(iter'[op'[2]], end(iter'[op'[2]].parent)).ret
              /\ Yield(iter'[op'[2]]) = <<>>)]_vars

\* a fresh iterator over a valid parent without a matching child, though not
\* without links, was incremented
C24_Witness ==
    /\ op = <<"inc", "i">>
    /\ err = "none"
    /\ iter["i"].stop_idx = npos
    /\ iter["i"].parent = "p"
    /\ valid(grp["p"])
    /\ MatchingOf("p") = <<>>
    /\ Links(store, PathOf("p")) # <<>>

\* the iterators that hold the object with this id as their element
Owners(id) == {i \in Iters : iter[i].live /\ iter[i].element = id}

\* b stands where a stands, without an element
SamePlaceNoElement(b, a) ==
    /\ b.live
    /\ b.parent = a.parent
    /\ b.stop_idx = a.stop_idx
    /\ b.name = a.name
    /\ b.element = 0

C26_NoNullEnumeration ==
    [][/\ \A i \in Iters :
             (iter[i].live /\ iter[i].parent = "null")
                => (iter[i].stop_idx = npos /\ iter[i].name = <<>> /\ iter[i].element = 0)
       /\ \A i \in Iters :
             (iter[i].live /\ iter[i].parent = "null" /\ iter'[i].live)
                => (/\ iter'[i].parent = "null"
                    /\ iter'[i].stop_idx = iter[i].stop_idx
                    /\ iter'[i].name = iter[i].name
                    /\ iter'[i].element = 0)]_vars

\* a default-constructed iterator was compared with a positioned one
C26_Witness ==
    /\ op[1] = "eq"
    /\ \E i \in {op[2], op[3]}, j \in {op[2], op[3]} :
          /\ iter[i].parent = "null" /\ iter[i].hist = "default"
          /\ iter[j].parent # "null" /\ iter[j].stop_idx \notin {0, npos}
    /\ ret = FALSE

====
